---- MODULE Spec2Model ----
(***************************************************************************)
(* Model of tools/qb45_decoder/qb45_symbols.py: the QB45 binary symbol     *)
(* extractor.  A run is main() over an argument list; each argument is a   *)
(* path that is missing, exists but cannot be opened, or holds a byte      *)
(* buffer.  extract_symbols is modelled one loop iteration per step, with  *)
(* byte offsets 0-based as in the source.  Names and strings are sequences *)
(* of code points.                                                         *)
(***************************************************************************)
EXTENDS Integers, Sequences, FiniteSets

VARIABLES argv, argi, pc, data, pos, symbols, ret, out, status

vars == <<argv, argi, pc, data, pos, symbols, ret, out, status>>

----------------------------------------------------------------------------
(* Program constants *)

Magic == 252
FlagSub == 64
FlagType == 8
FlagSubAlt == 4
NameLenLimit == 64
StrLenMin == 5
StrLenMax == 200
PrintLo == 32
PrintHi == 127
ReplacementChar == 65533
VarShowMinLen == 3
VarShowLimit == 30
StrShowMinLen == 10
StrShowLimit == 10
StrShowWidth == 50

(* Bounds of the explored inputs *)

MaxChunks == 2
MaxPad == 1
MaxArgs == 3

----------------------------------------------------------------------------
(* Byte-buffer helpers: data[p] and data[a:b] with 0-based offsets *)

At(d, p) == d[p + 1]

Slice(d, a, b) == SubSeq(d, a + 1, b)

InSeq(s, x) == \E i \in 1..Len(s) : s[i] = x

None == <<>>

Some(x) == <<x>>

----------------------------------------------------------------------------
(* Character classes used by the regular expressions *)

IsAlpha(c) == (65 <= c /\ c <= 90) \/ (97 <= c /\ c <= 122)

IsDigit(c) == 48 <= c /\ c <= 57

IsVarIdentChar(c) == IsAlpha(c) \/ IsDigit(c) \/ c \in {95, 36, 46, 37, 38, 35, 33}

IsSubIdentChar(c) == IsAlpha(c) \/ IsDigit(c) \/ c = 95

\* A pattern ending in $ also matches just before one trailing newline.
DropTrailingNewline(s) ==
    IF Len(s) > 0 /\ s[Len(s)] = 10 THEN SubSeq(s, 1, Len(s) - 1) ELSE s

\* re.match(r'^[A-Za-z_][A-Za-z0-9_$.%&#!]*$', name)
MatchesVarPattern(name) ==
    LET core == DropTrailingNewline(name)
    IN  /\ Len(core) >= 1
        /\ (IsAlpha(core[1]) \/ core[1] = 95)
        /\ \A i \in 2..Len(core) : IsVarIdentChar(core[i])

\* re.match(r'^[A-Za-z_][A-Za-z0-9_]*$', name)
MatchesSubPattern(name) ==
    LET core == DropTrailingNewline(name)
    IN  /\ Len(core) >= 1
        /\ (IsAlpha(core[1]) \/ core[1] = 95)
        /\ \A i \in 2..Len(core) : IsSubIdentChar(core[i])

\* 32 <= b < 127
IsPrintable(b) == PrintLo <= b /\ b < PrintHi

\* all(32 <= b < 127 for b in name_bytes)
AllPrintable(s) == \A i \in 1..Len(s) : IsPrintable(s[i])

\* bytes.decode('ascii') raises on a byte >= 128 (the bare except swallows it)
AsciiDecodable(s) == \A i \in 1..Len(s) : s[i] < 128

\* bytes.decode('ascii'): each byte below 128 is the code point of that value
DecodeAscii(s) == [i \in 1..Len(s) |-> s[i]]

\* bytes.decode('ascii', errors='replace'): a byte >= 128 becomes U+FFFD
DecodeReplace(s) == [i \in 1..Len(s) |-> IF s[i] >= 128 THEN ReplacementChar ELSE s[i]]

----------------------------------------------------------------------------
(* extract_symbols: the symbol dictionary *)

EmptySymbols ==
    [subs |-> <<>>, functions |-> <<>>, types |-> <<>>, variables |-> <<>>, strings |-> <<>>]

\* Mutation: the membership test is dropped
AddUnique_Always(lst, name) == Append(lst, name)

\* if name not in lst: lst.append(name)
AddUnique(lst, name) == IF InSeq(lst, name) THEN lst ELSE Append(lst, name)

\* Mutation: flag 0x08 is filed under subs
Classify_TypeAsSub(sym, flags, name) ==
    IF flags = FlagSub \/ flags = FlagType \/ flags = FlagSubAlt
    THEN [sym EXCEPT !.subs = AddUnique(sym.subs, name)]
    ELSE IF ~InSeq(sym.variables, name) /\ Len(name) > 1 /\ MatchesVarPattern(name)
         THEN [sym EXCEPT !.variables = Append(sym.variables, name)]
         ELSE sym

\* The flag dispatch of the generic record check
Classify(sym, flags, name) ==
    IF flags = FlagSub THEN [sym EXCEPT !.subs = AddUnique(sym.subs, name)]
    ELSE IF flags = FlagType THEN [sym EXCEPT !.types = AddUnique(sym.types, name)]
    ELSE IF flags = FlagSubAlt THEN [sym EXCEPT !.subs = AddUnique(sym.subs, name)]
    ELSE IF ~InSeq(sym.variables, name) /\ Len(name) > 1 /\ MatchesVarPattern(name)
         THEN [sym EXCEPT !.variables = Append(sym.variables, name)]
         ELSE sym

\* Mutation: the payload is not tested for printable bytes
GenericAccepts_NoPrintableCheck(d, p) ==
    LET length == At(d, p + 1)
    IN  length > 0 /\ length < NameLenLimit /\ p + 2 + length <= Len(d)

\* The generic record check accepts the candidate at pos
GenericAccepts(d, p) ==
    LET length == At(d, p + 1)
    IN  /\ length > 0
        /\ length < NameLenLimit
        /\ p + 2 + length <= Len(d)
        /\ AllPrintable(Slice(d, p + 2, p + 2 + length))

\* Mutation: the sub-pass does not test the payload for printable bytes
SubPassAccepts_NoPrintableCheck(d, p) ==
    /\ At(d, p) = FlagSub
    /\ p + 1 < Len(d)
    /\ LET length == At(d, p + 1)
       IN  length > 0 /\ length < NameLenLimit /\ p + 2 + length <= Len(d)

\* The 0x40 sub-pass accepts the candidate at pos
SubPassAccepts(d, p) ==
    /\ At(d, p) = FlagSub
    /\ p + 1 < Len(d)
    /\ LET length == At(d, p + 1)
       IN  /\ length > 0
           /\ length < NameLenLimit
           /\ p + 2 + length <= Len(d)
           /\ AllPrintable(Slice(d, p + 2, p + 2 + length))

\* What the sub-pass does with an accepted name
SubPassClassify(sym, name) ==
    IF ~InSeq(sym.subs, name) /\ MatchesSubPattern(name)
    THEN [sym EXCEPT !.subs = Append(sym.subs, name)]
    ELSE sym

\* pos += 2 + length
NameAdvance(p, length) == p + 2 + length

\* One iteration of the name-record loop: the new dictionary and offset
NameIter(d, p, sym) ==
    LET length == At(d, p + 1)
        name == DecodeAscii(Slice(d, p + 2, p + 2 + length))
    IN  IF GenericAccepts(d, p) /\ AsciiDecodable(Slice(d, p + 2, p + 2 + length))
        THEN [symbols |-> Classify(sym, At(d, p), name), pos |-> NameAdvance(p, length)]
        ELSE IF SubPassAccepts(d, p) /\ AsciiDecodable(Slice(d, p + 2, p + 2 + length))
        THEN [symbols |-> SubPassClassify(sym, name), pos |-> NameAdvance(p, length)]
        ELSE [symbols |-> sym, pos |-> p + 1]

\* Mutation: the loop runs one offset further
NameLoopCond_ToLenMinus4(d, p) == p < Len(d) - 3

\* while pos < len(data) - 4
NameLoopCond(d, p) == p < Len(d) - 4

\* 5 < length < 200 and pos + 1 + length <= len(data)
StrCandidate(d, p) ==
    LET length == At(d, p)
    IN  StrLenMin < length /\ length < StrLenMax /\ p + 1 + length <= Len(d)

\* sum(1 for b in str_bytes if 32 <= b < 127)
PrintableCount(s) == Cardinality({i \in 1..Len(s) : IsPrintable(s[i])})

\* Mutation: the ratio test is not strict
MostlyPrintable_AtLeast(s) == 10 * PrintableCount(s) >= 9 * Len(s)

\* printable_count > length * 0.9; on every length below 200 the float product
\* compares with an integer count exactly as 9 * length / 10 does
MostlyPrintable(s) == 10 * PrintableCount(s) > 9 * Len(s)

\* re.search(r'[A-Za-z]{2,}', s)
HasLetterRun(s) == \E i \in 1..(Len(s) - 1) : IsAlpha(s[i]) /\ IsAlpha(s[i + 1])

\* re.search(r'[\x00-\x1f]', s)
HasControl(s) == \E i \in 1..Len(s) : 0 <= s[i] /\ s[i] <= 31

\* Mutation: a candidate that passes the ratio test is skipped over
StrAdvance_SkipMatch(d, p) ==
    IF StrCandidate(d, p)
    THEN (IF MostlyPrintable(Slice(d, p + 1, p + 1 + At(d, p))) THEN p + 1 + At(d, p) ELSE p + 1)
    ELSE p + 1

\* pos += 1
StrAdvance(d, p) == p + 1

\* One iteration of the string-literal loop
StrIter(d, p, sym) ==
    LET length == At(d, p)
        bytes == Slice(d, p + 1, p + 1 + length)
        s == DecodeReplace(bytes)
    IN  IF /\ StrCandidate(d, p)
           /\ MostlyPrintable(bytes)
           /\ HasLetterRun(s)
           /\ ~InSeq(sym.strings, s)
           /\ ~HasControl(s)
        THEN [symbols |-> [sym EXCEPT !.strings = Append(sym.strings, s)],
              pos |-> StrAdvance(d, p)]
        ELSE [symbols |-> sym, pos |-> StrAdvance(d, p)]

\* while pos < len(data) - 5
StrLoopCond(d, p) == p < Len(d) - 5

RECURSIVE NameLoop(_, _, _)
\* The whole name-record loop from offset p
NameLoop(d, p, sym) ==
    IF NameLoopCond(d, p)
    THEN LET r == NameIter(d, p, sym) IN NameLoop(d, r.pos, r.symbols)
    ELSE sym

RECURSIVE StrLoop(_, _, _)
\* The whole string-literal loop from offset p
StrLoop(d, p, sym) ==
    IF StrLoopCond(d, p)
    THEN LET r == StrIter(d, p, sym) IN StrLoop(d, r.pos, r.symbols)
    ELSE sym

\* extract_symbols(data)
ExtractSymbols(d) == StrLoop(d, 0, NameLoop(d, 0, EmptySymbols))

----------------------------------------------------------------------------
(* The reporter: lines printed for one file *)

Line(stream, kind, arg, n, text) ==
    [stream |-> stream, kind |-> kind, arg |-> arg, n |-> n, text |-> text]

Min(a, b) == IF a <= b THEN a ELSE b

\* str comparison: code point by code point, a proper prefix sorts first
LexLess(a, b) ==
    \E k \in 0..Min(Len(a), Len(b)) :
        /\ \A j \in 1..k : a[j] = b[j]
        /\ \/ (k = Len(a) /\ k < Len(b))
           \/ (k < Len(a) /\ k < Len(b) /\ a[k + 1] < b[k + 1])

InsertSorted(s, x) ==
    LET k == Cardinality({i \in 1..Len(s) : ~LexLess(x, s[i])})
    IN  SubSeq(s, 1, k) \o <<x>> \o SubSeq(s, k + 1, Len(s))

RECURSIVE Sorted(_)
\* sorted(names)
Sorted(s) == IF s = <<>> THEN <<>> ELSE InsertSorted(Sorted(Tail(s)), Head(s))

NameLines(names, i) == [k \in 1..Len(names) |-> Line("stdout", "name", i, 0, names[k])]

IsInterestingVar(v) == Len(v) > VarShowMinLen

IsInterestingStr(s) == Len(s) > StrShowMinLen

SubsSection(sym, i) ==
    IF sym.subs # <<>>
    THEN <<Line("stdout", "subs_head", i, Len(sym.subs), <<>>)>> \o NameLines(Sorted(sym.subs), i)
    ELSE <<>>

TypesSection(sym, i) ==
    IF sym.types # <<>>
    THEN <<Line("stdout", "types_head", i, Len(sym.types), <<>>)>> \o NameLines(Sorted(sym.types), i)
    ELSE <<>>

VarsSection(sym, i) ==
    LET interesting == SelectSeq(sym.variables, IsInterestingVar)
        sorted == Sorted(interesting)
    IN  IF sym.variables # <<>> /\ interesting # <<>>
        THEN <<Line("stdout", "vars_head", i, Len(interesting), <<>>)>>
             \o NameLines(SubSeq(sorted, 1, Min(VarShowLimit, Len(sorted))), i)
             \o (IF Len(interesting) > VarShowLimit
                 THEN <<Line("stdout", "vars_more", i, Len(interesting) - VarShowLimit, <<>>)>>
                 ELSE <<>>)
        ELSE <<>>

StringsSection(sym, i) ==
    LET long == SelectSeq(sym.strings, IsInterestingStr)
        interesting == SubSeq(long, 1, Min(StrShowLimit, Len(long)))
    IN  IF sym.strings # <<>> /\ interesting # <<>>
        THEN <<Line("stdout", "strings_head", i, 0, <<>>)>>
             \o [k \in 1..Len(interesting) |->
                    Line("stdout", "string", i,
                         IF Len(interesting[k]) > StrShowWidth THEN 1 ELSE 0,
                         SubSeq(interesting[k], 1, Min(StrShowWidth, Len(interesting[k]))))]
        ELSE <<>>

\* Everything main prints for a file after its header when there is no error
Report(sym, i) ==
    SubsSection(sym, i) \o TypesSection(sym, i) \o VarsSection(sym, i)
    \o StringsSection(sym, i) \o <<Line("stdout", "blank", i, 0, <<>>)>>

UsageLines == [k \in 1..5 |-> Line("stdout", "usage", 0, k, <<>>)]

FormatErrorText == "Not a QB45 binary format file"

\* Mutation: a one-byte buffer passes the length test
BadFormat_OneByteOk(d) == IF Len(d) < 1 THEN TRUE ELSE At(d, 0) # Magic

\* len(data) < 2 or data[0] != 0xFC
BadFormat(d) == IF Len(d) < 2 THEN TRUE ELSE At(d, 0) # Magic

----------------------------------------------------------------------------
(* Inputs *)

Missing == [kind |-> "missing", bytes |-> <<>>]

Unreadable == [kind |-> "unreadable", bytes |-> <<>>]

FileOf(b) == [kind |-> "file", bytes |-> b]

Zeros(n) == [i \in 1..n |-> 0]

Chunks ==
    { <<64, 3, 70, 79, 79>>,                          \* 0x40 "FOO"
      <<4, 3, 70, 79, 79, 64, 3, 70, 111, 111>>,      \* 0x04 "FOO", 0x40 "Foo"
      <<8, 6, 80, 111, 105, 110, 116, 84, 0, 2, 120, 37>>,    \* 0x08 "PointT", 0x00 "x%"
      <<0, 1, 120, 0, 2, 49, 120>>,                   \* 0x00 "x", 0x00 "1x"
      <<64, 3, 70, 0, 79>>,                           \* 0x40, payload with a NUL
      <<64, 2, 32, 126, 64, 1, 127>>,                 \* 0x40 " ~", 0x40 DEL
      <<6, 72, 101, 108, 108, 111, 33,
        6, 65, 49, 66, 50, 67, 51>>,                  \* "Hello!", "A1B2C3"
      <<10, 65, 66, 67, 68, 69, 70, 71, 72, 73, 128>>,        \* 9 of 10 printable
      <<11, 65, 66, 67, 68, 69, 70, 71, 72, 73, 74, 128,
        11, 65, 66, 67, 68, 69, 70, 71, 72, 73, 74, 1>>,      \* 10 of 11; 10 of 11, a control byte
      <<33, 32>> \o [i \in 1..32 |-> 65 + (i % 2)]    \* length 33 over length 32
    }

RECURSIVE Bodies(_)
Bodies(n) ==
    IF n = 0 THEN {<<>>}
    ELSE Bodies(n - 1) \cup {b \o c : b \in Bodies(n - 1), c \in Chunks}

Heads == {<<>>, <<Magic>>}

Buffers == {h \o b \o Zeros(k) : h \in Heads, b \in Bodies(MaxChunks), k \in 0..MaxPad}

BatchFiles ==
    { Missing, Unreadable,
      FileOf(<<>>),
      FileOf(<<64, 5, 72, 69, 76, 76, 79>>),
      FileOf(<<252, 64, 5, 72, 69, 76, 76, 79>>),
      FileOf(<<252, 8, 6, 80, 111, 105, 110, 116, 84, 0, 4, 110, 97, 109, 101, 0, 0, 0, 0>>) }

RECURSIVE ArgLists(_)
ArgLists(n) ==
    IF n = 0 THEN {<<>>}
    ELSE ArgLists(n - 1) \cup {Append(a, f) : a \in ArgLists(n - 1), f \in BatchFiles}

Argvs == {<<FileOf(b)>> : b \in Buffers} \cup ArgLists(MaxArgs)

----------------------------------------------------------------------------
(* The state machine *)

NoReturn == [symbols |-> None, error |-> None]

Init ==
    /\ argv \in Argvs
    /\ argi = 1
    /\ pc = "main"
    /\ data = <<>>
    /\ pos = 0
    /\ symbols = EmptySymbols
    /\ ret = NoReturn
    /\ out = <<>>
    /\ status = None

\* if len(sys.argv) < 2: print usage; sys.exit(1)
Usage ==
    /\ pc = "main"
    /\ Len(argv) < 1
    /\ out' = out \o UsageLines
    /\ status' = Some(1)
    /\ pc' = "exit"
    /\ UNCHANGED <<argv, argi, data, pos, symbols, ret>>

EnterLoop ==
    /\ pc = "main"
    /\ Len(argv) >= 1
    /\ pc' = "loop"
    /\ UNCHANGED <<argv, argi, data, pos, symbols, ret, out, status>>

\* Mutation: a missing path ends the run with a failure status
NotFound_Aborts ==
    /\ pc = "loop"
    /\ argi <= Len(argv)
    /\ argv[argi].kind = "missing"
    /\ out' = Append(out, Line("stderr", "notfound", argi, 0, <<>>))
    /\ status' = Some(1)
    /\ pc' = "exit"
    /\ UNCHANGED <<argv, argi, data, pos, symbols, ret>>

\* if not os.path.exists(filepath): print to stderr; continue
NotFound ==
    /\ pc = "loop"
    /\ argi <= Len(argv)
    /\ argv[argi].kind = "missing"
    /\ out' = Append(out, Line("stderr", "notfound", argi, 0, <<>>))
    /\ argi' = argi + 1
    /\ UNCHANGED <<argv, pc, data, pos, symbols, ret, status>>

\* print(f"=== {basename} ===") and the call of analyze_file
Header ==
    /\ pc = "loop"
    /\ argi <= Len(argv)
    /\ argv[argi].kind # "missing"
    /\ out' = Append(out, Line("stdout", "header", argi, 0, <<>>))
    /\ pc' = "analyze"
    /\ UNCHANGED <<argv, argi, data, pos, symbols, ret, status>>

\* open() raises; nothing catches it, the interpreter prints a traceback and exits 1
OpenRaises ==
    /\ pc = "analyze"
    /\ argv[argi].kind = "unreadable"
    /\ out' = Append(out, Line("stderr", "traceback", argi, 0, <<>>))
    /\ status' = Some(1)
    /\ pc' = "exit"
    /\ UNCHANGED <<argv, argi, data, pos, symbols, ret>>

\* analyze_file returns (None, "Not a QB45 binary format file")
FormatError ==
    /\ pc = "analyze"
    /\ argv[argi].kind = "file"
    /\ BadFormat(argv[argi].bytes)
    /\ data' = argv[argi].bytes
    /\ ret' = [symbols |-> None, error |-> Some(FormatErrorText)]
    /\ pc' = "returned"
    /\ UNCHANGED <<argv, argi, pos, symbols, out, status>>

\* analyze_file calls extract_symbols(data)
BeginExtract ==
    /\ pc = "analyze"
    /\ argv[argi].kind = "file"
    /\ ~BadFormat(argv[argi].bytes)
    /\ data' = argv[argi].bytes
    /\ symbols' = EmptySymbols
    /\ pos' = 0
    /\ pc' = "names"
    /\ UNCHANGED <<argv, argi, ret, out, status>>

NameStep ==
    /\ pc = "names"
    /\ NameLoopCond(data, pos)
    /\ LET r == NameIter(data, pos, symbols)
       IN  symbols' = r.symbols /\ pos' = r.pos
    /\ UNCHANGED <<argv, argi, pc, data, ret, out, status>>

NameDone ==
    /\ pc = "names"
    /\ ~NameLoopCond(data, pos)
    /\ pos' = 0
    /\ pc' = "strings"
    /\ UNCHANGED <<argv, argi, data, symbols, ret, out, status>>

StrStep ==
    /\ pc = "strings"
    /\ StrLoopCond(data, pos)
    /\ LET r == StrIter(data, pos, symbols)
       IN  symbols' = r.symbols /\ pos' = r.pos
    /\ UNCHANGED <<argv, argi, pc, data, ret, out, status>>

\* return symbols; analyze_file returns (symbols, None)
StrDone ==
    /\ pc = "strings"
    /\ ~StrLoopCond(data, pos)
    /\ ret' = [symbols |-> Some(symbols), error |-> None]
    /\ pc' = "returned"
    /\ UNCHANGED <<argv, argi, data, pos, symbols, out, status>>

\* if error: print(f"  Error: {error}"); continue
PrintError ==
    /\ pc = "returned"
    /\ ret.error # None
    /\ out' = Append(out, Line("stdout", "error", argi, 0, <<>>))
    /\ argi' = argi + 1
    /\ pc' = "loop"
    /\ data' = <<>>
    /\ pos' = 0
    /\ symbols' = EmptySymbols
    /\ UNCHANGED <<argv, ret, status>>

PrintReport ==
    /\ pc = "returned"
    /\ ret.error = None
    /\ out' = out \o Report(ret.symbols[1], argi)
    /\ argi' = argi + 1
    /\ pc' = "loop"
    /\ data' = <<>>
    /\ pos' = 0
    /\ symbols' = EmptySymbols
    /\ UNCHANGED <<argv, ret, status>>

\* main returns; the interpreter exits 0
Exit ==
    /\ pc = "loop"
    /\ argi > Len(argv)
    /\ status' = Some(0)
    /\ pc' = "exit"
    /\ UNCHANGED <<argv, argi, data, pos, symbols, ret, out>>

Next ==
    \/ Usage
    \/ EnterLoop
    \/ NotFound
    \/ Header
    \/ OpenRaises
    \/ FormatError
    \/ BeginExtract
    \/ NameStep
    \/ NameDone
    \/ StrStep
    \/ StrDone
    \/ PrintError
    \/ PrintReport
    \/ Exit

Spec == Init /\ [][Next]_vars

\* The interpreter runs the single thread until main returns or raises
FairSpec == Spec /\ WF_vars(Next)

----------------------------------------------------------------------------
(* Vocabulary of the properties, stated on bytes independently of the scanners *)

NameFoo == <<70, 79, 79>>

NamePointT == <<80, 111, 105, 110, 116, 84>>

RecordFoo == <<64, 3, 70, 79, 79>>

\* The buffer is shorter than 2 bytes or does not start with 0xFC
Malformed(d) == IF Len(d) < 2 THEN TRUE ELSE d[1] # 252

\* A name record at offset p: length in 1..63, fits, payload bytes all in [0x20,0x7F)
RecordAt(d, p) ==
    /\ p + 2 <= Len(d)
    /\ d[p + 2] >= 1
    /\ d[p + 2] <= 63
    /\ p + 2 + d[p + 2] <= Len(d)
    /\ \A k \in (p + 3)..(p + 2 + d[p + 2]) : d[k] >= 32 /\ d[k] < 127

RecordLen(d, p) == d[p + 2]

RecordName(d, p) == SubSeq(d, p + 3, p + 2 + d[p + 2])

Letter(c) == (c >= 65 /\ c <= 90) \/ (c >= 97 /\ c <= 122)

\* [A-Za-z_][A-Za-z0-9_$.%&#!]*
Identifier(n) ==
    /\ Len(n) >= 1
    /\ (Letter(n[1]) \/ n[1] = 95)
    /\ \A k \in 2..Len(n) :
          Letter(n[k]) \/ (n[k] >= 48 /\ n[k] <= 57) \/ n[k] \in {95, 36, 46, 37, 38, 35, 33}

NoDuplicates(s) == \A i, j \in 1..Len(s) : i # j => s[i] # s[j]

\* t is s, or s with one value that s did not hold appended at the end
Extends(s, t) ==
    \/ t = s
    \/ /\ Len(t) = Len(s) + 1
       /\ SubSeq(t, 1, Len(s)) = s
       /\ ~InSeq(s, t[Len(t)])

ListNames == {"subs", "types", "variables", "strings"}

InExtract == pc \in {"names", "strings"}

\* The flag byte of the record at p put its name where the flag says
ClassifiedByFlag(d, p, sym) ==
    LET f == d[p + 1]
        n == RecordName(d, p)
    IN  /\ f \in {64, 4} => InSeq(sym.subs, n)
        /\ f = 8 => InSeq(sym.types, n)
        /\ (f \notin {64, 4, 8} /\ Len(n) > 1 /\ Identifier(n)) => InSeq(sym.variables, n)

\* A string candidate at offset p as the string scan describes it
CandidateAt(d, p) ==
    /\ p + 1 <= Len(d)
    /\ d[p + 1] > 5
    /\ d[p + 1] < 200
    /\ p + 1 + d[p + 1] <= Len(d)

CandidateBytes(d, p) == SubSeq(d, p + 2, p + 1 + d[p + 1])

PrintableIn(s) == Cardinality({k \in 1..Len(s) : s[k] >= 32 /\ s[k] < 127})

LooksLikeText(s) ==
    /\ \E k \in 1..(Len(s) - 1) : Letter(s[k]) /\ Letter(s[k + 1])
    /\ \A k \in 1..Len(s) : s[k] > 31

RECURSIVE CandidatesFrom(_, _)
\* Every accepted candidate from offset p on, in increasing offset order
CandidatesFrom(d, p) ==
    IF p >= Len(d) THEN <<>>
    ELSE (IF CandidateAt(d, p)
          THEN (IF /\ 10 * PrintableIn(CandidateBytes(d, p)) > 9 * Len(CandidateBytes(d, p))
                   /\ LooksLikeText(CandidateBytes(d, p))
                THEN <<DecodeReplace(CandidateBytes(d, p))>>
                ELSE <<>>)
          ELSE <<>>) \o CandidatesFrom(d, p + 1)

RECURSIVE FirstOccurrences(_)
FirstOccurrences(s) ==
    IF s = <<>> THEN <<>>
    ELSE LET rest == FirstOccurrences(SubSeq(s, 1, Len(s) - 1))
         IN  IF InSeq(rest, s[Len(s)]) THEN rest ELSE Append(rest, s[Len(s)])

\* One iteration of the name-record loop with the 0x40 sub-pass removed
IterWithoutSubPass(d, p, sym) ==
    LET length == At(d, p + 1)
        bytes == Slice(d, p + 2, p + 2 + length)
    IN  IF GenericAccepts(d, p) /\ AsciiDecodable(bytes)
        THEN [symbols |-> Classify(sym, At(d, p), DecodeAscii(bytes)),
              pos |-> NameAdvance(p, length)]
        ELSE [symbols |-> sym, pos |-> p + 1]

RECURSIVE LoopWithoutSubPass(_, _, _)
LoopWithoutSubPass(d, p, sym) ==
    IF NameLoopCond(d, p)
    THEN LET r == IterWithoutSubPass(d, p, sym) IN LoopWithoutSubPass(d, r.pos, r.symbols)
    ELSE sym

LinesFor(i) == LET OfArg(l) == l.arg = i IN SelectSeq(out, OfArg)

----------------------------------------------------------------------------
(* Properties *)

\* C1: analyze_file returns (None, format error) exactly for the buffers shorter
\* than 2 bytes or not starting with 0xFC, and (symbols, None) for every other
\* buffer; extract_symbols only ever runs on a buffer of the second kind.
C1_AnalyzeFileContract ==
    /\ InExtract => ~Malformed(data)
    /\ pc = "returned" =>
          IF Malformed(data)
          THEN ret = [symbols |-> None, error |-> Some(FormatErrorText)]
               /\ symbols = EmptySymbols
          ELSE ret.error = None /\ ret.symbols = Some(symbols)

C1_Witness ==
    /\ pc = "returned"
    /\ Len(data) >= 2
    /\ data[1] # 252
    /\ ret.symbols = None
    /\ ret.error # None

\* C2: with only missing, malformed and valid arguments, main ends with status 0
\* and its output is, argument by argument and in argument order: one
\* "File not found" line for a missing path, header and error line for a
\* malformed file, header and complete section for a valid file.
C2_PerFileIsolation ==
    (/\ pc = "exit"
     /\ Len(argv) >= 1
     /\ \A i \in 1..Len(argv) : argv[i].kind \in {"missing", "file"})
    => /\ status = Some(0)
       /\ \A k \in 1..(Len(out) - 1) : out[k].arg <= out[k + 1].arg
       /\ \A i \in 1..Len(argv) :
             LinesFor(i) =
                IF argv[i].kind = "missing"
                THEN <<Line("stderr", "notfound", i, 0, <<>>)>>
                ELSE IF Malformed(argv[i].bytes)
                THEN <<Line("stdout", "header", i, 0, <<>>), Line("stdout", "error", i, 0, <<>>)>>
                ELSE <<Line("stdout", "header", i, 0, <<>>)>>
                     \o Report(ExtractSymbols(argv[i].bytes), i)

C2_Witness ==
    /\ pc = "exit"
    /\ status = Some(0)
    /\ Len(argv) = 3
    /\ argv[1].kind = "file" /\ ~Malformed(argv[1].bytes)
    /\ argv[2].kind = "missing"
    /\ argv[3].kind = "file" /\ Malformed(argv[3].bytes)
    /\ Len(out) > 5

\* C3: when the run has ended, every argument has been processed, also the
\* arguments after a path that exists but cannot be opened.
C3_NoErrorStopsTheBatch ==
    pc = "exit" => \A i \in 1..Len(argv) : LinesFor(i) # <<>>

\* C4: during extract_symbols none of subs, types, variables, strings holds a
\* value twice, and each list only grows at its end by a value it did not hold
\* (order of first occurrence).
C4_NoDuplicates ==
    /\ [](\A f \in ListNames : NoDuplicates(symbols[f]))
    /\ [][InExtract => \A f \in ListNames : Extends(symbols[f], symbols'[f])]_vars

C4_Witness ==
    /\ pc = "returned"
    /\ Len(data) >= 11
    /\ SubSeq(data, 2, 6) = RecordFoo
    /\ SubSeq(data, 7, 11) = RecordFoo
    /\ ret.symbols = Some([EmptySymbols EXCEPT !.subs = <<NameFoo>>])

\* C5: a step of the name scan that accepts a record changes only the list its
\* flag byte selects: 0x40 and 0x04 put the name in subs, 0x08 puts it in
\* types, any other flag puts it in variables exactly when it is longer than 1
\* character and an identifier; every other list is left as it was.
C5_FlagSelectsSet ==
    [][(pc = "names" /\ pc' = "names" /\ RecordAt(data, pos)) =>
          LET f == data[pos + 1]
              n == RecordName(data, pos)
              target == IF f \in {64, 4} THEN "subs"
                        ELSE IF f = 8 THEN "types" ELSE "variables"
          IN  /\ \A g \in {"subs", "functions", "types", "variables", "strings"} \ {target} :
                    symbols'[g] = symbols[g]
              /\ symbols'[target] \in {symbols[target], Append(symbols[target], n)}
              /\ IF target = "variables"
                 THEN InSeq(symbols'.variables, n) <=>
                         (InSeq(symbols.variables, n) \/ (Len(n) > 1 /\ Identifier(n)))
                 ELSE InSeq(symbols'[target], n)]_vars

C5_Witness ==
    /\ pc = "names"
    /\ InSeq(symbols.types, NamePointT)
    /\ ~InSeq(symbols.subs, NamePointT)
    /\ ~InSeq(symbols.variables, NamePointT)

\* C6: a step of the name scan moves the offset by exactly 2 + length when the
\* record at the offset is accepted and by exactly 1 otherwise, so the offset
\* strictly increases, stays within the buffer, and the scan ends.
C6_OffsetAdvance ==
    /\ [][(pc = "names" /\ pc' = "names") =>
             /\ pos' = IF RecordAt(data, pos) THEN pos + 2 + RecordLen(data, pos) ELSE pos + 1
             /\ pos' > pos
             /\ pos' <= Len(data)]_vars
    /\ (pc = "names") ~> (pc = "strings")

\* A record with a NUL in its payload at offset 1 was examined and left by one byte
C6_Witness ==
    /\ pc = "names"
    /\ pos = 2
    /\ Len(data) >= 6
    /\ SubSeq(data, 1, 6) = <<252, 64, 3, 70, 0, 79>>

\* C7: a string candidate whose printable count times 10 is at most 9 times its
\* length is not added to strings.
C7_StrictRatio ==
    [][(/\ pc = "strings"
        /\ CandidateAt(data, pos)
        /\ 10 * PrintableIn(CandidateBytes(data, pos)) <= 9 * Len(CandidateBytes(data, pos)))
       => symbols'.strings = symbols.strings]_vars

\* The candidate just examined had ratio exactly 0.9, looks like text and is new
C7_Witness ==
    /\ pc = "strings"
    /\ pos >= 1
    /\ CandidateAt(data, pos - 1)
    /\ 10 * PrintableIn(CandidateBytes(data, pos - 1)) = 9 * Len(CandidateBytes(data, pos - 1))
    /\ LooksLikeText(DecodeReplace(CandidateBytes(data, pos - 1)))
    /\ ~InSeq(symbols.strings, DecodeReplace(CandidateBytes(data, pos - 1)))

\* C8 as stated: while the name scan stands at an offset up to len - 4 it
\* examines that offset, and a valid record there is accepted and classified.
C8_WalksToLenMinus4 ==
    [][(pc = "names" /\ pos <= Len(data) - 4) =>
          /\ pc' = "names"
          /\ RecordAt(data, pos) =>
                (pos' = pos + 2 + RecordLen(data, pos) /\ ClassifiedByFlag(data, pos, symbols'))]_vars

\* C8 amended: the name scan examines the offsets up to len - 5: a valid record
\* there is accepted and classified; standing at len - 4 or later the scan ends
\* without examining the offset.
C8_WalksToLenMinus5 ==
    [][pc = "names" =>
          IF pos <= Len(data) - 5
          THEN /\ pc' = "names"
               /\ RecordAt(data, pos) =>
                     (pos' = pos + 2 + RecordLen(data, pos) /\ ClassifiedByFlag(data, pos, symbols'))
          ELSE pc' = "strings" /\ symbols' = symbols]_vars

\* The record at len - 5 was accepted and classified
C8_Witness ==
    /\ pc = "names"
    /\ Len(data) = 6
    /\ pos = 6
    /\ SubSeq(data, 2, 6) = RecordFoo
    /\ symbols.subs = <<NameFoo>>

\* C9: the final strings list is the first-occurrence-deduplicated sequence, in
\* increasing offset order, of every string candidate of the buffer that passes
\* the ratio, letter-run and control-character tests, at any offset.
C9_StringsAreAllCandidates ==
    (pc = "returned" /\ ret.error = None) =>
        ret.symbols[1].strings = FirstOccurrences(CandidatesFrom(data, 0))

\* Two accepted candidates overlap
C9_Witness ==
    /\ pc = "returned"
    /\ ret.error = None
    /\ Len(ret.symbols[1].strings) >= 2
    /\ \E p, q \in 0..(Len(data) - 1) :
          /\ p < q
          /\ CandidateAt(data, p)
          /\ q <= p + data[p + 1]
          /\ CandidateAt(data, q)
          /\ InSeq(ret.symbols[1].strings, DecodeReplace(CandidateBytes(data, p)))
          /\ InSeq(ret.symbols[1].strings, DecodeReplace(CandidateBytes(data, q)))

\* C10: wherever the name scan stands, the iteration with the 0x40 sub-pass
\* equals the iteration without it, and where the generic check rejects, the
\* iteration changes no list and moves the offset by 1; the returned name lists
\* are those of the scan without the sub-pass.
C10_SubPassIsDead ==
    /\ (pc = "names" /\ NameLoopCond(data, pos)) =>
          /\ NameIter(data, pos, symbols) = IterWithoutSubPass(data, pos, symbols)
          /\ ~GenericAccepts(data, pos) =>
                NameIter(data, pos, symbols) = [symbols |-> symbols, pos |-> pos + 1]
    /\ (pc = "returned" /\ ret.error = None) =>
          ret.symbols[1] = StrLoop(data, 0, LoopWithoutSubPass(data, 0, EmptySymbols))

\* The sub-pass is evaluated: the offset holds 0x40 and the generic check rejected
C10_Witness ==
    /\ pc = "names"
    /\ NameLoopCond(data, pos)
    /\ At(data, pos) = 64
    /\ ~GenericAccepts(data, pos)
    /\ At(data, pos + 1) = 3

====
